---- MODULE Spec2Model ----
(***************************************************************************)
(* Model of modules/stream_out/dlna/dlna.cpp: the DLNA renderer stream     *)
(* output.  The session state (sout_stream_sys_t), the four stream         *)
(* callbacks Add / Del / Send / Flush, the reconciliation UpdateOutput     *)
(* with startSoutChain / stopSoutChain, and the renderer control client    *)
(* MediaRenderer (getServiceURL, SendAction, Play, Stop,                   *)
(* SetAVTransportURI).                                                     *)
(*                                                                         *)
(* The sout chain library, libupnp, the dialog and the clock are the       *)
(* environment: every call into them is an operator that returns the SET   *)
(* of outcomes the call can have, and records the call in the log of the   *)
(* running callback.                                                       *)
(***************************************************************************)
EXTENDS Integers, Sequences, FiniteSets, TLC

(* ------------------------------ bounds -------------------------------- *)

\* Number of track records that can be allocated at the same time.
MaxTracks == 2
\* Number of chains sout_StreamChainNew hands out in one run.
MaxChains == 2
\* Largest value the monotonic clock is observed at.
MaxTick == 2
\* Largest value vlc_mrand48 returns.
MaxRand == 1
\* Longest service list of a device of a device description.
MaxServices == 2
\* Largest number of device elements of a device description.
MaxDevices == 1

(* --------------------------- program constants ------------------------ *)

NULL == 0
VLC_SUCCESS == 0
VLC_EGENERIC == -1
VLC_ENOMEM == -2

AUDIO_ES == "AUDIO_ES"
VIDEO_ES == "VIDEO_ES"
SPU_ES == "SPU_ES"
UNKNOWN_ES == "UNKNOWN_ES"

VLC_CODEC_MP4A == "mp4a"
VLC_CODEC_H264 == "h264"
VLC_CODEC_MPGA == "mpga"
VLC_CODEC_MP4V == "mp4v"
VLC_CODEC_SUBT == "subt"
\* vlc_fourcc_t 0: no codec chosen yet
NoCodec == "0"

Handles == 1..MaxTracks
\* A sink handle is the pair <<chain, track>>; the null sink is <<NULL, NULL>>.
NoSink == <<NULL, NULL>>
\* The es_format_t values the input hands to Add.
Formats ==
    { [cat |-> AUDIO_ES, codec |-> VLC_CODEC_MP4A],
      [cat |-> AUDIO_ES, codec |-> VLC_CODEC_MPGA],
      [cat |-> VIDEO_ES, codec |-> VLC_CODEC_H264],
      [cat |-> VIDEO_ES, codec |-> VLC_CODEC_MP4V],
      [cat |-> SPU_ES,   codec |-> VLC_CODEC_SUBT] }
\* The es_format_t of a record that is not allocated.
NoFmt == [cat |-> UNKNOWN_ES, codec |-> NoCodec]
\* No chain description / no resource path.
NoUrl == <<-1, -1>>
NoSout == [stages |-> <<>>, root_url |-> NoUrl]
\* The answers of the performance warning dialog: none, it was not shown.
NoDialog == <<>>

(* ------------------------------ state --------------------------------- *)

VARIABLES
    streams,            \* sout_stream_sys_t::streams: handles, in order
    out_streams,        \* sout_stream_sys_t::out_streams: handles, in order
    fmt,                \* sout_stream_id_sys_t::fmt of each handle
    p_sub_id,           \* sout_stream_id_sys_t::p_sub_id of each handle
    p_out,              \* sout_stream_sys_t::p_out: a chain, or NULL
    es_changed,         \* sout_stream_sys_t::es_changed
    b_supports_video,   \* sout_stream_sys_t::b_supports_video
    perf_warning_shown, \* sout_stream_sys_t::perf_warning_shown
    show_perf_warning,  \* the configuration item show-perf-warning
    chains,             \* chains created and not yet deleted
    sinks,              \* sinks added to a chain and not yet removed from it
    nchains,            \* number of chains created so far
    now,                \* last value read from the monotonic clock
    crashed,            \* the process dereferenced a null chain
    last,               \* the last callback: what it was, what it called
    hist,               \* what happened since the last teardown by Del
    pushed,             \* the resource paths handed to the renderer so far
    rlast               \* the last SendAction of the renderer client

vars == << streams, out_streams, fmt, p_sub_id, p_out, es_changed,
           b_supports_video, perf_warning_shown, show_perf_warning,
           chains, sinks, nchains, now, crashed, last, hist, pushed, rlast >>

\* The session state as one value, with the empty logs of a callback that
\* is about to run.
Cur ==
    [ streams |-> streams, out_streams |-> out_streams, fmt |-> fmt,
      p_sub_id |-> p_sub_id, p_out |-> p_out, es_changed |-> es_changed,
      b_supports_video |-> b_supports_video,
      perf_warning_shown |-> perf_warning_shown,
      show_perf_warning |-> show_perf_warning,
      chains |-> chains, sinks |-> sinks, nchains |-> nchains, now |-> now,
      crashed |-> FALSE, updated |-> FALSE, update_ret |-> VLC_SUCCESS,
      calls |-> <<>>, actions |-> <<>>, sout |-> NoSout, uri |-> NoUrl,
      dialog |-> NoDialog ]

\* What the log of a callback keeps of the state it started from: the
\* pipeline, the dirty flag, the bound tracks and hist.
Before ==
    [ p_out |-> p_out, es_changed |-> es_changed,
      out_streams |-> out_streams, hist |-> hist ]

(* ------------------------------ helpers ------------------------------- *)

\* std::vector::erase of the first element equal to x
Erase(seq, x) ==
    LET idx == { i \in 1..Len(seq) : seq[i] = x }
    IN  IF idx = {} THEN seq
        ELSE LET k == CHOOSE i \in idx : \A j \in idx : i <= j
             IN  [ i \in 1..(Len(seq) - 1) |->
                       IF i < k THEN seq[i] ELSE seq[i + 1] ]

Range(seq) == { seq[i] : i \in 1..Len(seq) }

\* One call into the sout chain library, as the log keeps it.
Call(e, chain, sink) == [e |-> e, chain |-> chain, sink |-> sink]

Log(s, ev) == [s EXCEPT !.calls = Append(@, ev)]

(* ------------------- the sout chain library (environment) ------------- *)

\* es_format_Clean: releases the format and re-initialises it to
\* UNKNOWN_ES with codec 0.
es_format_Clean(f) == NoFmt

\* sout_StreamChainNew: a new chain, or NULL.
sout_StreamChainNew(s, sout) ==
    LET c    == s.nchains + 1
        s0   == [s EXCEPT !.sout = sout]
        fail == [ s |-> Log(s0, Call("ChainNew", NULL, NoSink)), h |-> NULL ]
        ok   == [ s |-> Log([s0 EXCEPT !.nchains = c, !.chains = @ \cup {c}],
                            Call("ChainNew", c, NoSink)),
                  h |-> c ]
    IN  {fail} \cup (IF s.nchains < MaxChains THEN {ok} ELSE {})

\* sout_StreamIdAdd: a new sink of the chain for track t, or NULL.
sout_StreamIdAdd(s, chain, t) ==
    { [ s |-> Log(s, Call("IdAdd", chain, NoSink)), h |-> NoSink ],
      [ s |-> Log([s EXCEPT !.sinks = @ \cup {<<chain, t>>}],
                  Call("IdAdd", chain, <<chain, t>>)),
        h |-> <<chain, t>> ] }

\* sout_StreamIdDel: s->pf_del(s, id); a null chain is dereferenced.
sout_StreamIdDel(s, chain, sink) ==
    IF chain = NULL
    THEN [Log(s, Call("IdDel", chain, sink)) EXCEPT !.crashed = TRUE]
    ELSE Log([s EXCEPT !.sinks = @ \ {sink}], Call("IdDel", chain, sink))

\* sout_StreamChainDelete: deletes the chain; nothing to delete when null.
sout_StreamChainDelete(s, chain) ==
    Log([s EXCEPT !.chains = @ \ {chain}], Call("ChainDelete", chain, NoSink))

\* sout_StreamFlush
sout_StreamFlush(s, chain, sink) == Log(s, Call("Flush", chain, sink))

\* sout_StreamIdSend: hands the block to the sink; the chain's status.
sout_StreamIdSend(s, chain, sink) ==
    { [ s |-> Log(s, Call("IdSend", chain, sink)), ret |-> r ] :
          r \in {VLC_SUCCESS, VLC_EGENERIC} }

\* block_Release
block_Release(s) == Log(s, Call("Release", NULL, NoSink))

(* ------------------------ stopSoutChain ------------------------------- *)

\* Mutant of stopLoop: the sinks are removed but p_sub_id is not reset.
RECURSIVE stopLoop_KeepsSubId(_, _)
stopLoop_KeepsSubId(s, i) ==
    IF s.crashed \/ i > Len(s.out_streams) THEN s
    ELSE LET t  == s.out_streams[i]
             s1 == sout_StreamIdDel(s, s.p_out, s.p_sub_id[t])
         IN  IF s1.crashed THEN s1 ELSE stopLoop_KeepsSubId(s1, i + 1)

\* The loop of stopSoutChain from index i on.
RECURSIVE stopLoop(_, _)
stopLoop(s, i) ==
    IF s.crashed \/ i > Len(s.out_streams) THEN s
    ELSE LET t  == s.out_streams[i]
             s1 == sout_StreamIdDel(s, s.p_out, s.p_sub_id[t])
         IN  IF s1.crashed THEN s1
             ELSE stopLoop([s1 EXCEPT !.p_sub_id[t] = NoSink], i + 1)

\* Mutant of stopSoutChain: p_out is not reset after the chain is deleted.
stopSoutChain_KeepsPOut(s) ==
    LET s1 == stopLoop(s, 1)
    IN  IF s1.crashed THEN s1
        ELSE sout_StreamChainDelete([s1 EXCEPT !.out_streams = <<>>], s1.p_out)

stopSoutChain(s) ==
    LET s1 == stopLoop(s, 1)
    IN  IF s1.crashed THEN s1
        ELSE LET s2 == sout_StreamChainDelete(
                           [s1 EXCEPT !.out_streams = <<>>], s1.p_out)
             IN  [s2 EXCEPT !.p_out = NULL]

(* ------------------------ startSoutChain ------------------------------ *)

\* Mutant of AddOne: a rejected stream is not erased from out_streams.
AddOne_KeepsRejected(s, t) ==
    { IF r.h = NoSink
      THEN [r.s EXCEPT !.p_sub_id[t] = NoSink,
                       !.fmt[t] = es_format_Clean(@)]
      ELSE [r.s EXCEPT !.p_sub_id[t] = r.h] :
          r \in sout_StreamIdAdd(s, s.p_out, t) }

\* One turn of the loop that adds the streams to the new chain.
AddOne(s, t) ==
    { IF r.h = NoSink
      THEN [r.s EXCEPT !.p_sub_id[t] = NoSink,
                       !.fmt[t] = es_format_Clean(@),
                       !.out_streams = Erase(@, t)]
      ELSE [r.s EXCEPT !.p_sub_id[t] = r.h] :
          r \in sout_StreamIdAdd(s, s.p_out, t) }

RECURSIVE AddLoop(_, _)
AddLoop(s, todo) ==
    IF todo = <<>> THEN {s}
    ELSE UNION { AddLoop(s1, Tail(todo)) : s1 \in AddOne(s, Head(todo)) }

startSoutChain(s, new_streams, sout) ==
    LET s1 == [s EXCEPT !.out_streams = new_streams]
    IN  UNION {
          IF r.h = NULL
          THEN { [ s |-> [r.s EXCEPT !.p_out = NULL, !.out_streams = <<>>],
                   ret |-> FALSE ] }
          ELSE { IF s3.out_streams = <<>>
                 THEN [ s |-> stopSoutChain(s3), ret |-> FALSE ]
                 ELSE [ s |-> s3, ret |-> TRUE ] :
                     s3 \in AddLoop([r.s EXCEPT !.p_out = r.h], new_streams) }
          : r \in sout_StreamChainNew(s1, sout) }

(* ------------------ MediaRenderer: the control client ----------------- *)

\* A service element of the device description, seen from the type asked
\* for: its serviceType does not contain the type, it matches but has no
\* controlURL child, or it matches and has one.
ServiceKinds == {"other", "nocontrol", "control"}
SeqsUpTo(S, n) == UNION { [1..k -> S] : k \in 0..n }
\* The device elements of a description, each with its service elements.
\* (A null node list is the empty list.)
Descriptions == SeqsUpTo(SeqsUpTo(ServiceKinds, MaxServices), MaxDevices)

\* What libupnp answers during one SendAction.
RendererEnvs ==
    [ download_ok : BOOLEAN,      \* UpnpDownloadXmlDoc == UPNP_E_SUCCESS
      devices     : Descriptions, \* the "device" elements of the document
      malloc_ok   : BOOLEAN,      \* malloc of psz_url
      resolve_ok  : BOOLEAN,      \* UpnpResolveURL == UPNP_E_SUCCESS
      code_ok     : BOOLEAN,      \* UpnpSendAction == UPNP_E_SUCCESS
      response    : BOOLEAN ]     \* UpnpSendAction set a response document

\* The inner loop of getServiceURL over one device's services: "next" when
\* the loop ends, else what getServiceURL returns ("url" or "null").
RECURSIVE scanServices(_, _, _)
scanServices(env, svcs, j) ==
    IF j > Len(svcs) THEN "next"
    ELSE IF svcs[j] # "control" THEN scanServices(env, svcs, j + 1)
    ELSE IF env.malloc_ok /\ env.resolve_ok THEN "url" ELSE "null"

\* The outer loop of getServiceURL over the devices.
RECURSIVE scanDevices(_, _)
scanDevices(env, i) ==
    IF i > Len(env.devices) THEN "null"
    ELSE LET r == scanServices(env, env.devices[i], 1)
         IN  IF r = "next" THEN scanDevices(env, i + 1) ELSE r

\* MediaRenderer::getServiceURL: the control URL, or nullptr.
getServiceURL(env) ==
    IF ~env.download_ok THEN "null" ELSE scanDevices(env, 1)

\* UpnpSendAction: the code and the response document it hands back.  With a
\* null ActionURL libupnp returns UPNP_E_INVALID_PARAM and no response.
UpnpSendAction(env, control_url) ==
    IF control_url = "null"
    THEN [code_ok |-> FALSE, response |-> FALSE]
    ELSE [code_ok |-> env.code_ok, response |-> env.response]

\* MediaRenderer::SendAction.  dispatches: the ActionURLs UpnpSendAction was
\* called with; response: a document is returned; the *_freed fields: what
\* was released before returning.
SendAction(action_name, env) ==
    LET control_url == getServiceURL(env)
        d           == UpnpSendAction(env, control_url)
    IN  [ action         |-> action_name,
          fetched        |-> env.download_ok,
          control_url    |-> control_url,
          dispatches     |-> <<control_url>>,
          code_ok        |-> d.code_ok,
          got_response   |-> d.response,
          action_freed   |-> TRUE,
          url_freed      |-> TRUE,
          response_freed |-> ~d.code_ok /\ d.response,
          response       |-> d.code_ok /\ d.response ]

\* Mutant of ActionResult: the response document is not freed.
ActionResult_KeepsResponse(sa) ==
    [ ret |-> IF ~sa.response THEN VLC_EGENERIC ELSE VLC_SUCCESS, sa |-> sa ]

\* The tail shared by Play, Stop and SetAVTransportURI: VLC_EGENERIC without
\* a response, else free it and VLC_SUCCESS.
ActionResult(sa) ==
    [ ret |-> IF ~sa.response THEN VLC_EGENERIC ELSE VLC_SUCCESS,
      sa  |-> [sa EXCEPT !.response_freed = @ \/ sa.response] ]

\* MediaRenderer::Play
Play(env) == ActionResult(SendAction("Play", env))
\* MediaRenderer::Stop
Stop(env) == ActionResult(SendAction("Stop", env))
\* MediaRenderer::SetAVTransportURI
SetAVTransportURI(env) == ActionResult(SendAction("SetAVTransportURI", env))

\* The statuses each action can return, over everything libupnp can answer.
PlayRets == { Play(env).ret : env \in RendererEnvs }
StopRets == { Stop(env).ret : env \in RendererEnvs }
SetAVTransportURIRets == { SetAVTransportURI(env).ret : env \in RendererEnvs }

\* One renderer action as the callback's log keeps it.
Act(name, uri, speed, ret) ==
    [name |-> name, uri |-> uri, speed |-> speed, ret |-> ret]
LogAct(s, a) == [s EXCEPT !.actions = Append(@, a)]

\* renderer->Stop() called from the session
renderer_Stop(s) ==
    { [s |-> LogAct(s, Act("Stop", NoUrl, "", r)), ret |-> r] : r \in StopRets }
\* renderer->SetAVTransportURI(uri) called from the session
renderer_SetAVTransportURI(s, uri) ==
    { [s |-> LogAct(s, Act("SetAVTransportURI", uri, "", r)), ret |-> r] :
          r \in SetAVTransportURIRets }
\* renderer->Play(speed) called from the session
renderer_Play(s, speed) ==
    { [s |-> LogAct(s, Act("Play", NoUrl, speed, r)), ret |-> r] :
          r \in PlayRets }

(* --------------------------- UpdateOutput ----------------------------- *)

canDecodeAudio(i_codec) == i_codec = VLC_CODEC_MP4A

canDecodeVideo(i_codec) == i_codec = VLC_CODEC_H264

\* The locals of UpdateOutput before its loop over streams.
ScanInit ==
    [ canRemux |-> TRUE, i_codec_video |-> NoCodec, i_codec_audio |-> NoCodec,
      p_original_audio |-> NULL, p_original_video |-> NULL,
      new_streams |-> <<>> ]

\* The loop of UpdateOutput over streams, from index i on.
RECURSIVE ScanStreams(_, _, _)
ScanStreams(s, i, l) ==
    IF i > Len(s.streams) THEN l
    ELSE
      LET t    == s.streams[i]
          p_es == s.fmt[t]
      IN  IF p_es.cat = AUDIO_ES
          THEN ScanStreams(s, i + 1,
                 [ ( IF ~canDecodeAudio(p_es.codec)
                     THEN [l EXCEPT !.p_original_audio = t, !.canRemux = FALSE]
                     ELSE IF l.i_codec_audio = NoCodec
                          THEN [l EXCEPT !.i_codec_audio = p_es.codec]
                          ELSE l )
                   EXCEPT !.new_streams = Append(@, t) ])
          ELSE IF s.b_supports_video /\ p_es.cat = VIDEO_ES
          THEN ScanStreams(s, i + 1,
                 [ ( IF ~canDecodeVideo(p_es.codec)
                     THEN [l EXCEPT !.p_original_video = t, !.canRemux = FALSE]
                     ELSE IF l.i_codec_video = NoCodec
                          THEN [l EXCEPT !.i_codec_video = p_es.codec]
                          ELSE l )
                   EXCEPT !.new_streams = Append(@, t) ])
          ELSE ScanStreams(s, i + 1, l)

\* A result of UpdateOutput, GetSubId, ...: the state and the value returned.
R(s, ret) == [s |-> s, ret |-> ret]

\* vlc_dialog_wait_question: an error, Cancel, OK, or "don't warn me again".
DialogResults == {-1, 0, 1, 2}

\* The performance warning: cancel says that UpdateOutput returns there.
PerfWarning(s, l) ==
    IF /\ ~s.perf_warning_shown
       /\ l.i_codec_video = NoCodec
       /\ l.p_original_video # NULL
       /\ s.show_perf_warning # 0
    THEN { IF res <= 0
           THEN [s |-> [s EXCEPT !.dialog = <<res>>], cancel |-> TRUE]
           ELSE [ s |-> [s EXCEPT !.dialog = <<res>>,
                                  !.perf_warning_shown = TRUE,
                                  !.show_perf_warning =
                                      IF res = 2 THEN 0 ELSE @],
                  cancel |-> FALSE ] :
               res \in DialogResults }
    ELSE { [s |-> s, cancel |-> FALSE] }

\* GetAcodecOption: "acodec=<fourcc>,aenc=avcodec{codec=aac},"
GetAcodecOption(i_codec_audio) ==
    << <<"acodec", i_codec_audio>>, <<"aenc", "avcodec{codec=aac}">> >>

\* vlc_sout_renderer_GetVcodecOption: the video options, or an exception.
vlc_sout_renderer_GetVcodecOption(i_codec_video) ==
    { [throws |-> TRUE, opt |-> <<>>],
      [throws |-> FALSE, opt |-> << <<"vcodec", i_codec_video>> >>] }

\* The transcode stage: the stages written to ssout, or the exception.
TranscodeStage(l) ==
    LET audio == IF l.i_codec_audio = NoCodec /\ l.p_original_audio # NULL
                 THEN GetAcodecOption(VLC_CODEC_MP4A) ELSE <<>>
        head  == << <<"transcode", "{">> >> \o audio
    IN  IF l.i_codec_video = NoCodec /\ l.p_original_video # NULL
        THEN { [throws |-> v.throws,
                stages |-> head \o v.opt \o << <<"}", ":">> >>] :
                   v \in vlc_sout_renderer_GetVcodecOption(VLC_CODEC_H264) }
        ELSE { [throws |-> FALSE, stages |-> head \o << <<"}", ":">> >>] }

\* The http stage appended to ssout.
HttpStage == << <<"http", "dst">>, <<"mux", "mp4stream">>,
                <<"mime", "video/mp4">> >>

\* Mutant of ControlActions: Play is called before SetAVTransportURI.
ControlActions_PlayFirst(s, uri) ==
    UNION { UNION { { b.s : b \in renderer_SetAVTransportURI(p.s, uri) } :
                        p \in renderer_Play(a.s, "1") } :
                a \in renderer_Stop(s) }

\* The three control actions after the chain has been started.
ControlActions(s, uri) ==
    UNION { UNION { { p.s : p \in renderer_Play(b.s, "1") } :
                        b \in renderer_SetAVTransportURI(a.s, uri) } :
                a \in renderer_Stop(s) }

\* vlc_tick_now: the monotonic clock; two reads made by two reconciliations
\* never return the same value.
vlc_tick_now(s) == (s.now + 1)..MaxTick

\* vlc_mrand48, cast to uint64_t
vlc_mrand48 == 0..MaxRand

\* Mutant of RootUrl: the path is built without the clock.
RootUrl_NoTick(tick, rnd) == <<0, rnd>>

\* root_url: "/dlna/<tick>/<random>/stream", kept as the pair that tells one
\* path from another.
RootUrl(tick, rnd) == <<tick, rnd>>

\* UpdateOutput from the resource path on: the clock and the
\* random number are read, then the address, then the chain is started.
Serve(s, l, stages) ==
    UNION {
      LET root_url == RootUrl(tick, rnd)
          sout     == [stages |-> stages \o HttpStage, root_url |-> root_url]
          s1       == [s EXCEPT !.now = tick]
      IN  \* getServerIPAddress() == nullptr
          { R(s1, VLC_EGENERIC) }
          \* asprintf(...) < 0
          \cup { R(s1, VLC_ENOMEM) }
          \cup UNION {
                 IF ~c.ret THEN { R(c.s, VLC_EGENERIC) }
                 ELSE { R(s2, VLC_SUCCESS) :
                          s2 \in ControlActions([c.s EXCEPT !.uri = root_url],
                                                root_url) }
                 : c \in startSoutChain(s1, l.new_streams, sout) }
      : tick \in vlc_tick_now(s), rnd \in vlc_mrand48 }

\* Mutant of ClearDirty: the flag is left set.
ClearDirty_Forgotten(s) == s

\* es_changed = false at the start of a reconciliation
ClearDirty(s) == [s EXCEPT !.es_changed = FALSE]

UpdateOutput(s) ==
    IF ~s.es_changed THEN { R(s, VLC_SUCCESS) }
    ELSE
      LET s1 == ClearDirty(s)
          l  == ScanStreams(s1, 1, ScanInit)
      IN  IF l.new_streams = <<>> THEN { R(s1, VLC_SUCCESS) }
          ELSE IF ~l.canRemux
          THEN UNION {
                 IF w.cancel THEN { R(w.s, 0) }   \* return false
                 ELSE UNION { IF ts.throws THEN { R(w.s, VLC_EGENERIC) }
                              ELSE Serve(w.s, l, ts.stages) :
                                  ts \in TranscodeStage(l) }
                 : w \in PerfWarning(s1, l) }
          ELSE Serve(s1, l, <<>>)

\* Mutant of GetSubId: the status of UpdateOutput is not looked at.
GetSubId_IgnoresFailure(s, id, update) ==
    LET lookup(s1) == IF id \in Range(s1.out_streams)
                      THEN s1.p_sub_id[id] ELSE NoSink
        seen(u)    == [u.s EXCEPT !.updated = TRUE, !.update_ret = u.ret]
    IN  IF update
        THEN { R(seen(u), lookup(u.s)) : u \in UpdateOutput(s) }
        ELSE { R(s, lookup(s)) }

\* sout_stream_sys_t::GetSubId
GetSubId(s, id, update) ==
    LET lookup(s1) == IF id \in Range(s1.out_streams)
                      THEN s1.p_sub_id[id] ELSE NoSink
        seen(u)    == [u.s EXCEPT !.updated = TRUE, !.update_ret = u.ret]
    IN  IF update
        THEN { IF u.ret # VLC_SUCCESS THEN R(seen(u), NoSink)
               ELSE R(seen(u), lookup(u.s)) : u \in UpdateOutput(s) }
        ELSE { R(s, lookup(s)) }

(* --------------------------- the callbacks ---------------------------- *)

\* The record of an rlast that no SendAction has written yet.
NoAction ==
    [ name |-> "", ret |-> VLC_SUCCESS,
      env |-> [ download_ok |-> FALSE, devices |-> <<>>, malloc_ok |-> FALSE,
                resolve_ok |-> FALSE, code_ok |-> FALSE, response |-> FALSE ],
      sa |-> [ action |-> "", fetched |-> FALSE, control_url |-> "null",
               dispatches |-> <<>>, code_ok |-> FALSE, got_response |-> FALSE,
               action_freed |-> FALSE, url_freed |-> FALSE,
               response_freed |-> FALSE, response |-> FALSE ] ]

\* The log when no callback has run since the caller took the last result.
NoCall ==
    [ op |-> "none", id |-> NULL, arg |-> NoFmt, ret |-> VLC_SUCCESS,
      updated |-> FALSE, update_ret |-> VLC_SUCCESS,
      calls |-> <<>>, actions |-> <<>>, sout |-> NoSout, uri |-> NoUrl,
      dialog |-> NoDialog,
      pre |-> [ p_out |-> NULL, es_changed |-> FALSE,
                out_streams |-> <<>>, hist |-> [torn |-> FALSE, add |-> FALSE] ] ]

\* hist: torn, a Del removed the last bound track and tore the pipeline down
\* and no pipeline has been built since; add, an Add came after that Del.
NoHist == [torn |-> FALSE, add |-> FALSE]

\* The callback op(id) (Add: of format arg) ends in state s and returns ret.
Commit(s, op, id, arg, ret, h) ==
    /\ streams' = s.streams
    /\ out_streams' = s.out_streams
    /\ fmt' = s.fmt
    /\ p_sub_id' = s.p_sub_id
    /\ p_out' = s.p_out
    /\ es_changed' = s.es_changed
    /\ perf_warning_shown' = s.perf_warning_shown
    /\ show_perf_warning' = s.show_perf_warning
    /\ chains' = s.chains
    /\ sinks' = s.sinks
    /\ nchains' = s.nchains
    /\ now' = s.now
    /\ crashed' = s.crashed
    /\ last' = [ op |-> op, id |-> id, arg |-> arg, ret |-> ret,
                 updated |-> s.updated, update_ret |-> s.update_ret,
                 calls |-> s.calls, actions |-> s.actions,
                 sout |-> s.sout, uri |-> s.uri, dialog |-> s.dialog,
                 pre |-> Before ]
    /\ hist' = h
    /\ pushed' = IF s.uri # NoUrl THEN pushed \cup {s.uri} ELSE pushed
    /\ UNCHANGED << b_supports_video, rlast >>

\* malloc(sizeof(sout_stream_id_sys_t)): the record it returns when it
\* succeeds.  Records are only compared for identity, so the free record
\* with the lowest number stands for any of them.
malloc ==
    LET free == { h \in Handles : h \notin Range(streams) }
    IN  { h \in free : \A g \in free : h <= g }

\* Mutant of RejectsTrack: every track is taken.
RejectsTrack_Never(p_fmt) == FALSE

\* The test at the head of Add: without video support only audio is taken.
RejectsTrack(p_fmt) == ~b_supports_video /\ p_fmt.cat # AUDIO_ES

\* static void *Add(sout_stream_t *, const es_format_t *)
Add ==
    /\ ~crashed
    /\ last = NoCall
    /\ \E p_fmt \in Formats :
         IF RejectsTrack(p_fmt)
         THEN Commit(Cur, "Add", NULL, p_fmt, NULL, hist)
         ELSE \/ Commit(Cur, "Add", NULL, p_fmt, NULL, hist)   \* malloc fails
              \/ \E p_sys_id \in malloc :
                   Commit([Cur EXCEPT !.fmt[p_sys_id] = p_fmt,
                                      !.p_sub_id[p_sys_id] = NoSink,
                                      !.streams = Append(@, p_sys_id),
                                      !.es_changed = TRUE],
                          "Add", NULL, p_fmt, p_sys_id,
                          [hist EXCEPT !.add = hist.torn])

\* static int Send(sout_stream_t *, void *id, block_t *)
Send ==
    /\ ~crashed
    /\ last = NoCall
    /\ \E id \in Range(streams) :
         \E g \in GetSubId(Cur, id, TRUE) :
           LET h == IF g.s.p_out # NULL THEN NoHist ELSE hist
           IN  IF g.ret = NoSink
               THEN Commit(block_Release(g.s), "Send", id, NoFmt,
                           VLC_EGENERIC, h)
               ELSE \E f \in sout_StreamIdSend(g.s, g.s.p_out, g.ret) :
                      Commit(f.s, "Send", id, NoFmt, f.ret, h)

\* static void Flush(sout_stream_t *, void *id)
Flush ==
    /\ ~crashed
    /\ last = NoCall
    /\ \E id \in Range(streams) :
         \E g \in GetSubId(Cur, id, FALSE) :
           IF g.ret = NoSink
           THEN Commit(g.s, "Flush", id, NoFmt, VLC_SUCCESS, hist)
           ELSE LET s1 == sout_StreamFlush(g.s, g.s.p_out, g.ret)
                    s2 == stopSoutChain(s1)
                IN  Commit([s2 EXCEPT !.es_changed = TRUE],
                           "Flush", id, NoFmt, VLC_SUCCESS, hist)

\* Mutant of DelRecord: the record is not erased from out_streams.
DelRecord_KeepsOutStream(s, id) ==
    LET s1 == IF s.p_sub_id[id] # NoSink
              THEN sout_StreamIdDel(s, s.p_out, s.p_sub_id[id])
              ELSE s
    IN  IF s1.crashed THEN s1
        ELSE [s1 EXCEPT !.fmt[id] = es_format_Clean(@),
                        !.p_sub_id[id] = NoSink,
                        !.streams = Erase(@, id)]

\* Del up to the end of its loop over streams: the record is found, its sink
\* removed from p_out, the record freed and erased.
DelRecord(s, id) ==
    LET s1 == IF s.p_sub_id[id] # NoSink
              THEN LET d == sout_StreamIdDel(s, s.p_out, s.p_sub_id[id])
                   IN  IF d.crashed THEN d
                       ELSE [d EXCEPT !.out_streams = Erase(@, id)]
              ELSE s
    IN  IF s1.crashed THEN s1
        ELSE [s1 EXCEPT !.fmt[id] = es_format_Clean(@),
                        !.p_sub_id[id] = NoSink,
                        !.streams = Erase(@, id)]

\* static void Del(sout_stream_t *, void *_id)
Del ==
    /\ ~crashed
    /\ last = NoCall
    /\ \E id \in Range(streams) :
         LET s1 == DelRecord(Cur, id)
             h  == IF p_out # NULL /\ out_streams = <<id>>
                   THEN [torn |-> TRUE, add |-> FALSE] ELSE hist
         IN  IF s1.crashed \/ s1.out_streams # <<>>
             THEN Commit(s1, "Del", id, NoFmt, VLC_SUCCESS, hist)
             ELSE LET s2 == stopSoutChain(s1)
                  IN  IF s2.crashed
                      THEN Commit(s2, "Del", id, NoFmt, VLC_SUCCESS, hist)
                      ELSE \E r \in renderer_Stop(s2) :
                             Commit(r.s, "Del", id, NoFmt, VLC_SUCCESS, h)

\* The callback has returned: the caller takes the result, and the log of
\* the callback is dropped before the next one is called.
Return ==
    /\ ~crashed
    /\ last # NoCall
    /\ last' = NoCall
    /\ UNCHANGED << streams, out_streams, fmt, p_sub_id, p_out, es_changed,
                    b_supports_video, perf_warning_shown, show_perf_warning,
                    chains, sinks, nchains, now, crashed, hist, pushed, rlast >>

(* ------------------- the renderer client on its own ------------------- *)

\* One call of Play, Stop or SetAVTransportURI, with what libupnp answers.
RendererCall(name, env) ==
    LET r == CASE name = "Play" -> Play(env)
               [] name = "Stop" -> Stop(env)
               [] OTHER -> SetAVTransportURI(env)
    IN  /\ rlast = NoAction
        /\ rlast' = [name |-> name, ret |-> r.ret, env |-> env, sa |-> r.sa]
        /\ UNCHANGED << streams, out_streams, fmt, p_sub_id, p_out, es_changed,
                        b_supports_video, perf_warning_shown,
                        show_perf_warning, chains, sinks, nchains, now,
                        crashed, last, hist, pushed >>

CallPlay == \E env \in RendererEnvs : RendererCall("Play", env)
CallStop == \E env \in RendererEnvs : RendererCall("Stop", env)
CallSetAVTransportURI ==
    \E env \in RendererEnvs : RendererCall("SetAVTransportURI", env)

\* The action has returned to its caller.
RendererReturn ==
    /\ rlast # NoAction
    /\ rlast' = NoAction
    /\ UNCHANGED << streams, out_streams, fmt, p_sub_id, p_out, es_changed,
                    b_supports_video, perf_warning_shown, show_perf_warning,
                    chains, sinks, nchains, now, crashed, last, hist, pushed >>

(* --------------------------- specifications --------------------------- *)

\* The session after OpenSout: the constructor of sout_stream_sys_t.
Init ==
    /\ streams = <<>>
    /\ out_streams = <<>>
    /\ fmt = [h \in Handles |-> NoFmt]
    /\ p_sub_id = [h \in Handles |-> NoSink]
    /\ p_out = NULL
    /\ es_changed = TRUE
    /\ b_supports_video \in BOOLEAN
    /\ perf_warning_shown = FALSE
    /\ show_perf_warning \in {0, 1}
    /\ chains = {}
    /\ sinks = {}
    /\ nchains = 0
    /\ now = 0
    /\ crashed = FALSE
    /\ last = NoCall
    /\ hist = NoHist
    /\ pushed = {}
    /\ rlast = NoAction

\* The stream callbacks, called one at a time by the owner of the session.
Next == Add \/ Del \/ Send \/ Flush \/ Return

Spec == Init /\ [][Next]_vars

\* The control client: the renderer's actions, called one at a time.
RendererNext == CallPlay \/ CallStop \/ CallSetAVTransportURI \/ RendererReturn

SpecRenderer == Init /\ [][RendererNext]_vars

(* ------------------------------ claims -------------------------------- *)

\* What a callback's log L says.
ChainNewFailed(L) ==
    \E i \in 1..Len(L.calls) :
        L.calls[i].e = "ChainNew" /\ L.calls[i].chain = NULL
ChainNewOk(L) ==
    \E i \in 1..Len(L.calls) :
        L.calls[i].e = "ChainNew" /\ L.calls[i].chain # NULL
Called(L, e) == \E i \in 1..Len(L.calls) : L.calls[i].e = e
Issued(L, name) == \E i \in 1..Len(L.actions) : L.actions[i].name = name
\* The reconciliation of L built a pipeline and issued the control actions.
Rebuilt(L) ==
    /\ L.updated /\ L.pre.es_changed /\ L.update_ret = VLC_SUCCESS
    /\ ChainNewOk(L) /\ L.actions # <<>>
NoBinding == \A h \in Handles : p_sub_id[h] = NoSink

\* C1 (as claimed): when a pipeline exists and the reconciliation run by Send
\* fails because sout_StreamChainNew returns null, p_out, out_streams and
\* every p_sub_id are what they were before the call, and the old chain is
\* still alive.
C1_FailureIsolation ==
    [][ ( /\ last = NoCall /\ last'.op = "Send"
          /\ p_out # NULL
          /\ ChainNewFailed(last') )
        => ( /\ p_out' = p_out
             /\ out_streams' = out_streams
             /\ p_sub_id' = p_sub_id
             /\ p_out' \in chains' ) ]_vars

\* C2 (as claimed): when a reconciliation that found the dirty flag set ends
\* with an error (no address, no memory, no chain, every track rejected, the
\* video options threw), the dirty flag is still set afterwards.
C2_DirtyKeptOnAbort ==
    ( /\ last.op = "Send" /\ last.updated /\ last.pre.es_changed
      /\ last.update_ret # VLC_SUCCESS )
    => es_changed

\* C3 (as claimed): Play is issued only after a Stop that succeeded and a
\* SetAVTransportURI that succeeded for the URI just built.
C3_PlayOnlyAfterSetURI ==
    \A i \in 1..Len(last.actions) :
        last.actions[i].name = "Play" =>
          /\ \E j \in 1..(i - 1) :
               /\ last.actions[j].name = "SetAVTransportURI"
               /\ last.actions[j].ret = VLC_SUCCESS
               /\ last.actions[j].uri = last.sout.root_url
          /\ \A j \in 1..(i - 1) :
               last.actions[j].name = "Stop" =>
                   last.actions[j].ret = VLC_SUCCESS

\* C4 (as claimed): when a reconciliation succeeds while a previous pipeline
\* exists, every sink of the previous chain has been removed from it and the
\* previous chain has been deleted.
C4_TeardownBeforeOrphan ==
    ( /\ last.op = "Send" /\ last.pre.p_out # NULL /\ Rebuilt(last) )
    => /\ last.pre.p_out \notin chains
       /\ \A t \in Range(last.pre.out_streams) :
              <<last.pre.p_out, t>> \notin sinks

\* C5 (as claimed): between calls at most one chain has been created and
\* not deleted, and it is the one p_out refers to.
C5_AtMostOnePipeline ==
    /\ Cardinality(chains) <= 1
    /\ chains = IF p_out = NULL THEN {} ELSE {p_out}

\* C6: a Send leaves the dirty flag clear, and a Send that finds it clear
\* creates no chain, deletes no chain, adds and removes no sink, changes no
\* binding and issues no renderer action.  So after one Send, further Sends
\* with no Add, Del or Flush in between rebuild nothing.
C6_SendIdempotent ==
    [][ ( last = NoCall /\ last'.op = "Send" )
        => /\ ~es_changed'
           /\ ~es_changed =>
                /\ UNCHANGED << p_out, out_streams, p_sub_id, chains, sinks,
                                nchains, streams, fmt >>
                /\ last'.actions = <<>>
                /\ \A i \in 1..Len(last'.calls) :
                       last'.calls[i].e \in {"IdSend", "Release"} ]_vars

\* C6 witness: a Send found the dirty flag clear and a pipeline in place, and
\* forwarded its block.
C6_Witness ==
    /\ last.op = "Send" /\ ~last.pre.es_changed /\ last.pre.p_out # NULL
    /\ Called(last, "IdSend")

\* A Del that removes the last bound track of a live pipeline.
DelOfLastBound(L) ==
    L.op = "Del" /\ L.pre.p_out # NULL /\ L.pre.out_streams = <<L.id>>

\* C7 (as claimed): after the Del of the last bound track, SetAVTransportURI
\* or Play is issued only by a Send that follows an Add made after that Del.
C7_NoPlayUnlessLaterAdd ==
    ( /\ last.pre.hist.torn
      /\ Issued(last, "SetAVTransportURI") \/ Issued(last, "Play") )
    => ( last.op = "Send" /\ last.pre.hist.add /\ Rebuilt(last) )

\* C7 (amended): the Del of the last bound track of a live pipeline removes
\* its sink, deletes the chain, leaves p_out null and no binding, and issues
\* exactly one Stop and nothing else; afterwards SetAVTransportURI or Play is
\* issued only by a Send that finds the dirty flag set (by an Add before or
\* after the removal) and runs a new successful reconciliation.
C7_DelLastBound ==
    /\ DelOfLastBound(last) =>
         /\ p_out = NULL /\ out_streams = <<>> /\ NoBinding
         /\ last.pre.p_out \notin chains
         /\ <<last.pre.p_out, last.id>> \notin sinks
         /\ Len(last.actions) = 1 /\ last.actions[1].name = "Stop"
         /\ hist.torn
    /\ ( /\ last.pre.hist.torn
         /\ Issued(last, "SetAVTransportURI") \/ Issued(last, "Play") )
       => ( last.op = "Send" /\ last.pre.es_changed /\ Rebuilt(last) )

\* C7 witness: the last bound track was removed while another track, added
\* since the pipeline was built, is registered; the pipeline is gone and the
\* one Stop was issued.
C7_Witness ==
    /\ DelOfLastBound(last) /\ Issued(last, "Stop")
    /\ streams # <<>> /\ es_changed /\ p_out = NULL

\* C8 (as claimed): after Flush of any registered track there is no
\* pipeline, no binding, and the dirty flag is set.
C8_FlushAlwaysTearsDown ==
    last.op = "Flush" =>
        /\ p_out = NULL /\ out_streams = <<>> /\ NoBinding
        /\ es_changed

\* C8 (amended): Flush of a track that is bound in the pipeline flushes its
\* sink, tears the pipeline down (p_out null, no binding, the chain deleted)
\* and sets the dirty flag; Flush of a track that is not bound returns at
\* once: no call is made, the pipeline and the dirty flag stay as they were.
C8_FlushBoundTearsDown ==
    [][ ( last = NoCall /\ last'.op = "Flush" )
        => IF last'.id \in Range(out_streams)
           THEN /\ p_out' = NULL /\ out_streams' = <<>>
                /\ \A h \in Handles : p_sub_id'[h] = NoSink
                /\ es_changed'
                /\ p_out \notin chains'
                /\ last'.calls[1] = Call("Flush", p_out, p_sub_id[last'.id])
           ELSE /\ UNCHANGED << p_out, out_streams, p_sub_id, es_changed,
                                chains, sinks >>
                /\ last'.calls = <<>> ]_vars

\* C8 witness: a bound track was flushed while another track was bound too.
C8_Witness ==
    /\ last.op = "Flush" /\ last.id \in Range(last.pre.out_streams)
    /\ Len(last.pre.out_streams) = 2

\* The Send of log L handed its block to a sink.
Forwarded(L) == Called(L, "IdSend")

\* C9 (as claimed): Send forwards the block iff the track is bound in the
\* current pipeline; otherwise the block is released and Send fails; a block
\* only goes to a sink of the current pipeline.
C9_ForwardIffBound ==
    last.op = "Send" =>
        /\ Forwarded(last) <=> last.id \in Range(out_streams)
        /\ ~Forwarded(last) =>
               Called(last, "Release") /\ last.ret = VLC_EGENERIC
        /\ \A i \in 1..Len(last.calls) :
               last.calls[i].e = "IdSend" =>
                   /\ last.calls[i].chain = p_out /\ p_out \in chains
                   /\ last.calls[i].sink = p_sub_id[last.id]
                   /\ last.calls[i].sink[1] = p_out

\* C9 (amended): Send runs the reconciliation first, and forwards the block
\* iff the reconciliation returned success and the track is bound in the
\* current pipeline; otherwise (also when the reconciliation failed and the
\* track is still bound) the block is released, nothing is forwarded and
\* Send fails.  A block only goes to the track's sink in the current
\* pipeline, after every call of the reconciliation.
C9_ForwardIffUpdatedAndBound ==
    last.op = "Send" =>
        /\ last.updated
        /\ Forwarded(last) <=>
               ( last.update_ret = VLC_SUCCESS
                 /\ last.id \in Range(out_streams) )
        /\ ~Forwarded(last) =>
               /\ Called(last, "Release") /\ last.ret = VLC_EGENERIC
               /\ last.calls[Len(last.calls)].e = "Release"
        /\ \A i \in 1..Len(last.calls) :
               last.calls[i].e = "IdSend" =>
                   /\ i = Len(last.calls)
                   /\ ~Called(last, "Release")
                   /\ last.calls[i].chain = p_out /\ p_out \in chains
                   /\ last.calls[i].sink = p_sub_id[last.id]
                   /\ last.calls[i].sink[1] = p_out
                   /\ last.calls[i].sink \in sinks

\* C9 witness: the reconciliation of a Send failed before it touched the
\* pipeline; the track is still bound in it, and the block was released.
C9_Witness ==
    /\ last.op = "Send" /\ last.update_ret # VLC_SUCCESS
    /\ last.id \in Range(out_streams) /\ p_out # NULL
    /\ Called(last, "Release") /\ ~Forwarded(last)

\* C10 (as claimed): when the control URL is not resolved (the description
\* cannot be fetched, no service matches, the URL cannot be resolved), the
\* action fails and UpnpSendAction is not called.
C10_NoDispatchWithoutURL ==
    ( rlast # NoAction /\ rlast.sa.control_url = "null" )
    => ( rlast.ret = VLC_EGENERIC /\ rlast.sa.dispatches = <<>> )

\* C11: each call of Play, Stop or SetAVTransportURI calls UpnpSendAction
\* exactly once; it returns VLC_SUCCESS iff that call returned the success
\* code together with a response document, and VLC_EGENERIC otherwise, with
\* no second call; a response document that was obtained has been freed when
\* the action returns, on the success path and on the failure path, and
\* nothing is freed when none was obtained.
C11_OneDispatch ==
    rlast # NoAction =>
        /\ Len(rlast.sa.dispatches) = 1
        /\ rlast.sa.action = rlast.name
        /\ rlast.ret \in {VLC_SUCCESS, VLC_EGENERIC}
        /\ rlast.ret = VLC_SUCCESS <=>
               ( rlast.sa.code_ok /\ rlast.sa.got_response )
        /\ ~rlast.sa.code_ok => rlast.ret = VLC_EGENERIC
        /\ rlast.sa.response_freed <=> rlast.sa.got_response
        /\ rlast.sa.action_freed /\ rlast.sa.url_freed

\* C11 witness: Play was dispatched to a resolved control URL, came back with
\* the success code and a response document, and returned success.
C11_Witness ==
    /\ rlast # NoAction /\ rlast.name = "Play"
    /\ rlast.sa.control_url = "url"
    /\ rlast.sa.code_ok /\ rlast.sa.got_response
    /\ rlast.ret = VLC_SUCCESS /\ rlast.sa.response_freed

\* The reconciliation of log L created a chain and returned success.
SuccessfulRebuild(L) ==
    /\ L.op = "Send" /\ L.updated /\ L.pre.es_changed
    /\ L.update_ret = VLC_SUCCESS /\ ChainNewOk(L)

\* The description of L has a transcode stage.
HasTranscode(sout) ==
    \E i \in 1..Len(sout.stages) : sout.stages[i][1] = "transcode"

\* C12: a reconciliation that builds a pipeline and succeeds issues exactly
\* three renderer actions, in the order Stop, SetAVTransportURI with the
\* resource path just built, Play with speed "1"; and when the only
\* registered track is an MP4A audio track, the description the Send hands
\* to sout_StreamChainNew is the http stage alone.
C12_ActionOrder ==
    [][ ( last = NoCall /\ last'.op = "Send" )
        => /\ SuccessfulRebuild(last') =>
                /\ Len(last'.actions) = 3
                /\ last'.actions[1].name = "Stop"
                /\ last'.actions[2].name = "SetAVTransportURI"
                /\ last'.actions[2].uri = last'.sout.root_url
                /\ last'.actions[2].uri # NoUrl
                /\ last'.actions[3].name = "Play"
                /\ last'.actions[3].speed = "1"
           /\ ( /\ Len(streams) = 1
                /\ fmt[streams[1]] = [cat |-> AUDIO_ES,
                                        codec |-> VLC_CODEC_MP4A]
                /\ Called(last', "ChainNew") )
              => /\ last'.sout.stages = HttpStage
                 /\ ~HasTranscode(last'.sout) ]_vars

\* C12 witness: the first Send of a session whose only track is MP4A audio
\* built the first chain with the http stage alone and issued the actions.
C12_Witness ==
    /\ SuccessfulRebuild(last) /\ nchains = 1 /\ Len(streams) = 1
    /\ fmt[streams[1]] = [cat |-> AUDIO_ES, codec |-> VLC_CODEC_MP4A]
    /\ last.sout.stages = HttpStage /\ Len(last.actions) = 3

\* C13: an Add that returns no handle changes nothing: the registry, the
\* bound set, the bindings, the pipeline and the dirty flag are what they
\* were; on a session without video support the Add of a video track returns
\* no handle; an Add that returns a handle has appended that record to the
\* registry with the format given and no binding, has set the dirty flag,
\* and has left the bound set and the pipeline alone.
C13_AddRejectsOrRegisters ==
    [][ ( last = NoCall /\ last'.op = "Add" )
        => /\ ( ~b_supports_video /\ last'.arg.cat = VIDEO_ES )
                => last'.ret = NULL
           /\ IF last'.ret = NULL
              THEN UNCHANGED << streams, out_streams, fmt, p_sub_id, p_out,
                                es_changed, chains, sinks >>
              ELSE /\ last'.ret \notin Range(streams)
                   /\ streams' = Append(streams, last'.ret)
                   /\ fmt' = [fmt EXCEPT ![last'.ret] = last'.arg]
                   /\ p_sub_id'[last'.ret] = NoSink
                   /\ es_changed'
                   /\ UNCHANGED << out_streams, p_out, chains, sinks >>
                   /\ \A h \in Handles \ {last'.ret} :
                          p_sub_id'[h] = p_sub_id[h] ]_vars

\* C13 witness: a session without video support, with a pipeline and a clear
\* dirty flag, was offered a video track and returned no handle.
C13_Witness ==
    /\ last.op = "Add" /\ ~b_supports_video /\ last.arg.cat = VIDEO_ES
    /\ last.ret = NULL /\ p_out # NULL /\ ~es_changed

\* C14 (as claimed): when a Send builds a pipeline while a registered audio
\* track has a codec other than MP4A, the description has an acodec option
\* for MP4A and an aenc option.
C14_AcodecWhenNotRemuxable ==
    ( /\ SuccessfulRebuild(last)
      /\ \E i \in 1..Len(streams) :
             /\ fmt[streams[i]].cat = AUDIO_ES
             /\ fmt[streams[i]].codec # VLC_CODEC_MP4A )
    => /\ \E i \in 1..Len(last.sout.stages) :
              last.sout.stages[i] = <<"acodec", VLC_CODEC_MP4A>>
       /\ \E i \in 1..Len(last.sout.stages) :
              last.sout.stages[i][1] = "aenc"

\* C15 (as claimed): between calls a track has a sink only if a pipeline
\* exists, the track is in out_streams and the sink is one of that pipeline;
\* a pipeline that is torn down or given up leaves no binding behind.
C15_BindingValid ==
    \A h \in Handles :
        p_sub_id[h] # NoSink =>
            /\ p_out # NULL
            /\ h \in Range(out_streams)
            /\ p_sub_id[h][1] = p_out

C17_ActionFailureIsError ==
    ( /\ last.op = "Send"
      /\ \E i \in 1..Len(last.actions) : last.actions[i].ret # VLC_SUCCESS )
    => /\ last.update_ret # VLC_SUCCESS
       /\ last.ret # VLC_SUCCESS
       /\ p_out # NULL /\ p_out \in chains

\* C18 (as claimed): when the answer to the performance warning is Cancel,
\* UpdateOutput does not return success, creates no chain, issues no
\* renderer action, and leaves the pipeline, the bindings, the dirty flag
\* and perf_warning_shown as they were.
C18_CancelNoSideEffects ==
    [][ ( last = NoCall /\ last'.op = "Send" /\ last'.dialog = <<0>> )
        => /\ last'.update_ret # VLC_SUCCESS
           /\ ~Called(last', "ChainNew")
           /\ last'.actions = <<>>
           /\ UNCHANGED << p_out, out_streams, p_sub_id, chains, sinks,
                            es_changed, perf_warning_shown >> ]_vars

\* The codec of the first registered track of category cat, NoCodec if none.
FirstCodec(cat) ==
    LET idx == { i \in 1..Len(streams) : fmt[streams[i]].cat = cat }
    IN  IF idx = {} THEN NoCodec
        ELSE fmt[streams[CHOOSE i \in idx : \A j \in idx : i <= j]].codec

\* Every category's first codec can be remuxed (video counts only on a
\* session that supports it).
FirstCodecsRemuxable ==
    /\ FirstCodec(AUDIO_ES) \in {NoCodec, VLC_CODEC_MP4A}
    /\ b_supports_video => FirstCodec(VIDEO_ES) \in {NoCodec, VLC_CODEC_H264}

\* C19 (as claimed): the description a Send hands to sout_StreamChainNew has
\* a transcode stage iff the first codec of the audio tracks or the first
\* codec of the video tracks cannot be remuxed; otherwise it is the http
\* stage alone.
C19_TranscodeIffFirstCodec ==
    [][ ( last = NoCall /\ last'.op = "Send" /\ Called(last', "ChainNew") )
        => /\ HasTranscode(last'.sout) <=> ~FirstCodecsRemuxable
           /\ FirstCodecsRemuxable => last'.sout.stages = HttpStage ]_vars

\* The chain the reconciliation of log L created.
NewChain(L) ==
    L.calls[CHOOSE i \in 1..Len(L.calls) : L.calls[i].e = "ChainNew"].chain

\* The tracks the chain of log L accepted: sout_StreamIdAdd returned a sink.
Accepted(L) ==
    { L.calls[i].sink[2] :
        i \in { j \in 1..Len(L.calls) :
                  L.calls[j].e = "IdAdd" /\ L.calls[j].sink # NoSink } }

\* The registered tracks a reconciliation offers to the new chain.
Eligible ==
    { t \in Range(streams) :
        \/ fmt[t].cat = AUDIO_ES
        \/ b_supports_video /\ fmt[t].cat = VIDEO_ES }

\* C20: when the reconciliation of a Send has created a chain, every
\* eligible track is offered to it once.  If the chain accepts at least one,
\* the reconciliation succeeds, the chain is the pipeline, out_streams is
\* exactly the accepted tracks, each bound to its sink of that chain, and
\* every rejected track has no binding.  If it accepts none, the chain is
\* deleted, no pipeline and no binding is left, no renderer action is
\* issued, and the reconciliation and the Send fail.
C20_PartialRejection ==
    [][ ( last = NoCall /\ last'.op = "Send" /\ ChainNewOk(last') )
        => LET c == NewChain(last')
               A == Accepted(last')
           IN  /\ A \subseteq Eligible
               /\ Cardinality({ i \in 1..Len(last'.calls) :
                                  last'.calls[i].e = "IdAdd" })
                      = Cardinality(Eligible)
               /\ \A i \in 1..Len(last'.calls) :
                      last'.calls[i].e = "IdAdd" => last'.calls[i].chain = c
               /\ \A t \in Eligible \ A : p_sub_id'[t] = NoSink
               /\ IF A # {}
                  THEN /\ last'.update_ret = VLC_SUCCESS
                       /\ p_out' = c /\ c \in chains'
                       /\ Range(out_streams') = A
                       /\ Len(out_streams') = Cardinality(A)
                       /\ \A t \in A : /\ p_sub_id'[t] = <<c, t>>
                                        /\ <<c, t>> \in sinks'
                       /\ Len(last'.actions) = 3
                  ELSE /\ last'.update_ret # VLC_SUCCESS
                       /\ last'.ret = VLC_EGENERIC
                       /\ \E i \in 1..Len(last'.calls) :
                              last'.calls[i] = Call("ChainDelete", c, NoSink)
                       /\ c \notin chains'
                       /\ p_out' = NULL /\ out_streams' = <<>>
                       /\ last'.actions = <<>> ]_vars

\* C20 witness: the new chain rejected one track and accepted another, and
\* the reconciliation succeeded with the accepted one bound.
C20_Witness ==
    /\ last.op = "Send" /\ ChainNewOk(last)
    /\ last.update_ret = VLC_SUCCESS
    /\ \E i \in 1..Len(last.calls) :
           last.calls[i].e = "IdAdd" /\ last.calls[i].sink = NoSink
    /\ Accepted(last) # {} /\ Range(out_streams) = Accepted(last)

\* C21: between calls every track of out_streams is in streams, and once;
\* a Del leaves the record it freed in neither of them, and a record that
\* is not registered has no format and no binding.
C21_BoundSubsetOfRegistry ==
    /\ Range(out_streams) \subseteq Range(streams)
    /\ Cardinality(Range(out_streams)) = Len(out_streams)
    /\ Cardinality(Range(streams)) = Len(streams)
    /\ ( last.op = "Del" /\ ~crashed ) =>
           /\ last.id \notin Range(streams)
           /\ last.id \notin Range(out_streams)
    /\ \A h \in Handles \ Range(streams) :
           /\ h \notin Range(out_streams)
           /\ fmt[h] = NoFmt /\ p_sub_id[h] = NoSink

\* C21 witness: a bound track was removed while another track stays bound
\* in the pipeline.
C21_Witness ==
    /\ last.op = "Del" /\ last.id \in Range(last.pre.out_streams)
    /\ out_streams # <<>> /\ p_out # NULL

\* C22 (as claimed): sout_StreamIdDel and sout_StreamChainDelete are never
\* called with a null chain, and a Del issues Stop only when a pipeline
\* existed before it and that Del deleted its chain.
C22_TeardownOnlyOnLivePipeline ==
    /\ \A i \in 1..Len(last.calls) :
           last.calls[i].e \in {"IdDel", "ChainDelete"} =>
               last.calls[i].chain # NULL
    /\ ( last.op = "Del" /\ Issued(last, "Stop") ) =>
           /\ last.pre.p_out # NULL
           /\ \E i \in 1..Len(last.calls) :
                  last.calls[i] = Call("ChainDelete", last.pre.p_out, NoSink)

====
